---- MODULE Spec2Model ----
(***************************************************************************)
(* NL2SQL: schema-aware retrieval pipeline.                                *)
(*                                                                         *)
(*   build_vector_db.py  load_schema -> schema_summary -> create_documents *)
(*                       -> create_vector_db      (specification SpecBuild)*)
(*   main.py             streamlit_ui: load_db, load_schema,               *)
(*                       get_relevant_schemas, llm_sql_query, sql_response *)
(*                                                 (specification Spec)    *)
(*   schema_generation.py  get_database_schema, main                       *)
(*                       and sql_response on its own (specification SpecDb)*)
(*                                                                         *)
(* A Python dict is an insertion-ordered map: [keys |-> sequence of keys,  *)
(* val |-> function on the keys].  A Python str built by an f-string or by *)
(* str.join is the sequence of its pieces, literal pieces verbatim.        *)
(***************************************************************************)
EXTENDS Integers, Sequences, FiniteSets, TLC

VARIABLES
    \* build_vector_db.py main(): where it is, the schema file it opens, its locals
    b_pc, b_file, b_schema, b_summaries, b_documents, b_index,
    \* main.py streamlit_ui(): st.session_state, where the script run is, the
    \* number of script runs of the session so far
    session, pc, runs,
    \* the widgets of the run: whether the button was pressed, the text area
    button, question,
    \* the locals of the run
    relevant_tables, relevant_schemas, response_text, sql_query, results,
    \* what the page shows when the run ends
    ui,
    \* the database connections that are open
    open_conns,
    \* history: the collaborators called by the run, in order; the step of
    \* sql_response that failed; how often each loader was called in the session
    calls, exec_failed, load_calls,
    \* schema_generation.py main(): where it is, the database it inspects, the
    \* tables SHOW TABLES returned, the schema built so far, the connections it
    \* holds open, the file it wrote
    x_pc, x_db, x_tables, x_schema, x_open, x_file

b_vars == <<b_pc, b_file, b_schema, b_summaries, b_documents, b_index>>

u_vars ==
    <<session, pc, runs, button, question, relevant_tables, relevant_schemas,
      response_text, sql_query, results, ui, open_conns, calls, exec_failed, load_calls>>

x_vars == <<x_pc, x_db, x_tables, x_schema, x_open, x_file>>

vars == <<b_vars, u_vars, x_vars>>

----------------------------------------------------------------------------
(* Bounds of the model *)

\* longest foreign_keys list of a table
MaxFks == 2

\* script runs (reruns and button presses) of one UI session
MaxRuns == 2

----------------------------------------------------------------------------
(* Python values *)

None == [kind |-> "none"]

Range(s) == {s[i] : i \in DOMAIN s}

\* sequences over S without repetition, at most n long
RECURSIVE DistinctSeqs(_, _)
DistinctSeqs(S, n) ==
    IF n = 0 \/ S = {} THEN {<<>>}
    ELSE {<<>>} \cup UNION {{<<x>> \o t : t \in DistinctSeqs(S \ {x}, n - 1)} : x \in S}

\* sequences over S, at most n long
RECURSIVE SeqsUpTo(_, _)
SeqsUpTo(S, n) ==
    IF n = 0 THEN {<<>>}
    ELSE {<<>>} \cup {<<x>> \o t : x \in S, t \in SeqsUpTo(S, n - 1)}

\* {} / dict()
EmptyDict == [kind |-> "dict", keys |-> <<>>, val |-> [k \in {} |-> None]]

\* k in d
DictHas(d, k) == k \in DOMAIN d.val

\* d[k] = v : a new key goes last, an existing key keeps its place
DictSet(d, k, v) ==
    [kind |-> "dict",
     keys |-> IF DictHas(d, k) THEN d.keys ELSE Append(d.keys, k),
     val  |-> [x \in (DOMAIN d.val) \cup {k} |-> IF x = k THEN v ELSE d.val[x]]]

\* the dict with the given keys, in that order, k mapped to f[k]
MkDict(ks, f) ==
    [kind |-> "dict", keys |-> ks, val |-> [k \in Range(ks) |-> f[k]]]

\* bool(x) of a loaded JSON value: None, {} and [] are falsy
Truthy(x) ==
    CASE x.kind = "none" -> FALSE
      [] x.kind = "dict" -> x.keys # <<>>
      [] x.kind = "list" -> x.items # <<>>

\* sep.join(parts), parts a sequence of str
RECURSIVE Join(_, _)
Join(parts, sep) ==
    IF parts = <<>> THEN <<>>
    ELSE IF Len(parts) = 1 THEN <<parts[1]>>
    ELSE <<parts[1], sep>> \o Join(Tail(parts), sep)

\* sep.join(parts), parts a sequence of strs that are themselves piece sequences
RECURSIVE JoinPieces(_, _)
JoinPieces(parts, sep) ==
    IF parts = <<>> THEN <<>>
    ELSE IF Len(parts) = 1 THEN parts[1]
    ELSE parts[1] \o <<sep>> \o JoinPieces(Tail(parts), sep)

----------------------------------------------------------------------------
(* The schema file: database_schema.json *)

Fields == {"columns", "primary_keys", "foreign_keys"}

TableNames == {"patients", "appointments"}

ColNames == {"id", "name"}

ColType == [id |-> "int", name |-> "varchar(100)"]

FkRefs ==
    {[column |-> "patient_id", references_table |-> "patients", references_column |-> "id"],
     [column |-> "doctor_id", references_table |-> "doctors", references_column |-> "id"]}

\* the subsequences of s
RECURSIVE SubSeqs(_)
SubSeqs(s) ==
    IF s = <<>> THEN {<<>>}
    ELSE LET r == SubSeqs(Tail(s))
         IN  r \cup {<<Head(s)>> \o t : t \in r}

\* a table entry with all three fields: any columns, none included; as primary
\* keys some of the columns, in declaration order; any foreign keys
WellFormedTables ==
    UNION {{[columns |-> MkDict(cs, ColType), primary_keys |-> pk, foreign_keys |-> fk] :
               pk \in SubSeqs(cs), fk \in SeqsUpTo(FkRefs, MaxFks)} :
              cs \in DistinctSeqs(ColNames, Cardinality(ColNames))}

\* the table of the spec's example with one of its fields missing
MalformedTables ==
    LET t == [columns |-> MkDict(<<"id">>, ColType), primary_keys |-> <<"id">>,
              foreign_keys |-> <<>>]
    IN  {[f \in Fields \ {x} |-> t[f]] : x \in Fields}

TableEntries == WellFormedTables \cup MalformedTables

\* a JSON object keyed by table name: every ordered choice of tables
SchemaDicts ==
    UNION {[kind : {"dict"}, keys : {ks}, val : [Range(ks) -> TableEntries]] :
              ks \in DistinctSeqs(TableNames, Cardinality(TableNames))}

\* a JSON document whose top level is an array
SchemaLists == {[kind |-> "list", items |-> ks] : ks \in DistinctSeqs(TableNames, 1)}

\* what database_schema.json can be when build_vector_db.py opens it
BuildFiles ==
    {[kind |-> "missing"], [kind |-> "invalid_json"], [kind |-> "unreadable"]}
        \cup {[kind |-> "json", value |-> v] : v \in SchemaDicts \cup SchemaLists}

----------------------------------------------------------------------------
(* build_vector_db.py *)

Returned(v) == [raised |-> FALSE, value |-> v]

Raised(e) == [raised |-> TRUE, error |-> e]

\* load_schema(file_path): FileNotFoundError and JSONDecodeError are caught and
\* None is returned; any other error of open() is not caught
load_schema(file) ==
    CASE file.kind = "missing"      -> Returned(None)
      [] file.kind = "invalid_json" -> Returned(None)
      [] file.kind = "unreadable"   -> Raised("OSError")
      [] file.kind = "json"         -> Returned(file.value)

\* the clause of one foreign key
fk_desc(fk) ==
    <<fk.column, " references ", fk.references_table, ".", fk.references_column>>

\* table_summary without the "if primary_keys:" guard
table_summary_unguarded(table_name, table_info) ==
    <<"This table ", table_name, " , has columns ">>
        \o Join(table_info["columns"].keys, ", ") \o <<".">>
        \o <<" The primary key in this table is ">>
        \o Join(table_info["primary_keys"], ", ") \o <<".">>
        \o (IF table_info["foreign_keys"] # <<>>
            THEN <<" Foreign keys: ">>
                     \o JoinPieces([i \in DOMAIN table_info["foreign_keys"] |->
                                       fk_desc(table_info["foreign_keys"][i])], "; ")
                     \o <<".">>
            ELSE <<>>)

\* table_summary appending the foreign-key sentence before the primary-key one
table_summary_fk_first(table_name, table_info) ==
    <<"This table ", table_name, " , has columns ">>
        \o Join(table_info["columns"].keys, ", ") \o <<".">>
        \o (IF table_info["foreign_keys"] # <<>>
            THEN <<" Foreign keys: ">>
                     \o JoinPieces([i \in DOMAIN table_info["foreign_keys"] |->
                                       fk_desc(table_info["foreign_keys"][i])], "; ")
                     \o <<".">>
            ELSE <<>>)
        \o (IF table_info["primary_keys"] # <<>>
            THEN <<" The primary key in this table is ">>
                     \o Join(table_info["primary_keys"], ", ") \o <<".">>
            ELSE <<>>)

\* the body of schema_summary's loop: the summary of one table
table_summary(table_name, table_info) ==
    LET columns      == table_info["columns"]
        primary_keys == table_info["primary_keys"]
        foreign_keys == table_info["foreign_keys"]
        column_names == columns.keys
        columns_text == Join(column_names, ", ")
        base == <<"This table ", table_name, " , has columns ">> \o columns_text \o <<".">>
        pk   == IF primary_keys # <<>>
                THEN <<" The primary key in this table is ">>
                         \o Join(primary_keys, ", ") \o <<".">>
                ELSE <<>>
        fk   == IF foreign_keys # <<>>
                THEN <<" Foreign keys: ">>
                         \o JoinPieces([i \in DOMAIN foreign_keys |-> fk_desc(foreign_keys[i])], "; ")
                         \o <<".">>
                ELSE <<>>
    IN  base \o pk \o fk

\* schema_summary(schema): one summary per table in schema.items() order; a list
\* has no items() and a table without one of the three fields raises KeyError
schema_summary(schema) ==
    IF schema.kind # "dict" THEN Raised("AttributeError")
    ELSE IF \E k \in Range(schema.keys) : ~(Fields \subseteq DOMAIN schema.val[k])
    THEN Raised("KeyError")
    ELSE Returned([i \in DOMAIN schema.keys |->
                      table_summary(schema.keys[i], schema.val[schema.keys[i]])])

\* create_documents reading the table names in another order than schema.keys()
create_documents_reordered(summaries, schema) ==
    LET n == Len(schema.keys)
        table_names == [i \in 1..n |-> schema.keys[n + 1 - i]]
    IN  IF Len(summaries) > n THEN Raised("IndexError")
        ELSE Returned([i \in DOMAIN summaries |->
                          [page_content |-> summaries[i],
                           metadata |-> [table_name |-> table_names[i]]]])

\* create_documents(summaries, schema): document i pairs summaries[i] with
\* list(schema.keys())[i]
create_documents(summaries, schema) ==
    LET table_names == schema.keys
    IN  IF Len(summaries) > Len(table_names) THEN Raised("IndexError")
        ELSE Returned([i \in DOMAIN summaries |->
                          [page_content |-> summaries[i],
                           metadata |-> [table_name |-> table_names[i]]]])

\* create_vector_db(documents): FAISS.from_documents binds one vector to each
\* document and save_local persists them; the embedding model may fail
create_vector_db(documents, ok) ==
    IF ok /\ documents # <<>> THEN Returned([kind |-> "faiss", docs |-> documents])
    ELSE Raised("IndexBuildError")

----------------------------------------------------------------------------
(* main.py: the collaborators' inputs *)

\* the keys streamlit_ui keeps in st.session_state
SessionKeys == {"vectorstore", "schema"}

\* the table_name metadata a persisted index can hold: the tables of the schema
\* file and tables that were dropped since the index was built
IndexNames == TableNames \cup {"doctors", "billing"}

\* get_relevant_schemas(..., top_k=3) as streamlit_ui calls it
top_k == 3

\* the faiss_vector folders load_db can find: one document per table name
VectorStores ==
    {[kind |-> "faiss", table_names |-> ns] : ns \in (SUBSET IndexNames) \ {{}}}

\* the table entries of the schema files the UI is run with: the patients table of
\* the spec's example and the same entry without its foreign_keys field
UIEntries ==
    LET t == [columns |-> MkDict(<<"id", "name">>, ColType), primary_keys |-> <<"id">>,
              foreign_keys |-> <<>>]
    IN  {t, [f \in Fields \ {"foreign_keys"} |-> t[f]]}

UISchemaDicts ==
    UNION {[kind : {"dict"}, keys : {ks}, val : [Range(ks) -> UIEntries]] :
              ks \in DistinctSeqs(TableNames, Cardinality(TableNames))}

\* what database_schema.json can be when the UI opens it
UIFiles ==
    {[kind |-> "missing"], [kind |-> "invalid_json"], [kind |-> "unreadable"]}
        \cup {[kind |-> "json", value |-> v] : v \in UISchemaDicts \cup SchemaLists}

Questions == {"", "Give me all the appointments made by patient 2"}

PyStr(x) == [kind |-> "str", s |-> x]

\* message.content of the generation service's reply
ResponseTexts ==
    {"{\"sql_query\": \"SELECT * FROM patients\"}",
     "{\"sql_query\": \"SELECT * FROM patients\", \"note\": \"all rows\"}",
     "{\"query\": \"SELECT * FROM patients\"}",
     "[\"SELECT * FROM patients\"]",
     "Here is the query: {\"sql_query\": \"SELECT * FROM patients\"}",
     "not json"}

\* json.loads(text) on the texts above
json_loads(text) ==
    CASE text = "{\"sql_query\": \"SELECT * FROM patients\"}" ->
            Returned(MkDict(<<"sql_query">>,
                            [sql_query |-> PyStr("SELECT * FROM patients")]))
      [] text = "{\"sql_query\": \"SELECT * FROM patients\", \"note\": \"all rows\"}" ->
            Returned(MkDict(<<"sql_query", "note">>,
                            [sql_query |-> PyStr("SELECT * FROM patients"),
                             note |-> PyStr("all rows")]))
      [] text = "{\"query\": \"SELECT * FROM patients\"}" ->
            Returned(MkDict(<<"query">>, [query |-> PyStr("SELECT * FROM patients")]))
      [] text = "[\"SELECT * FROM patients\"]" ->
            Returned([kind |-> "list", items |-> <<PyStr("SELECT * FROM patients")>>])
      [] OTHER -> Raised("JSONDecodeError")

\* what the database does with one sql_response call: the step that raises
\* ("none": no step does) and the rows fetchall returns
Rows == {<<>>, <<<<2, "Asha">>>>}

DbOutcomes == [fail : {"none", "connect", "cursor", "execute", "fetchall"}, rows : Rows]

----------------------------------------------------------------------------
(* main.py: the functions *)

\* load_db(load_path): FAISS.load_local returns the store or raises
load_db(folder) ==
    IF folder.kind = "faiss" THEN Returned(folder) ELSE Raised("RuntimeError")

\* vectorstore.similarity_search_with_score(question, k): the k nearest documents,
\* or all of them when there are fewer, in the order the embedding ranks them
similarity_search(vectorstore, k) ==
    LET n == Cardinality(vectorstore.table_names)
    IN  {r \in DistinctSeqs(vectorstore.table_names, k) :
            Len(r) = IF n < k THEN n ELSE k}

\* the loop of get_relevant_schemas over relevant_tables: "table_name in schema"
\* raises on None; on a list it is membership and schema[table_name] then raises
RECURSIVE select_tables(_, _, _)
select_tables(relevant, schema, selected) ==
    IF relevant = <<>> THEN Returned(selected)
    ELSE LET table_name == Head(relevant)
         IN  CASE schema.kind = "none" -> Raised("TypeError")
               [] schema.kind = "list" ->
                     IF table_name \in Range(schema.items) THEN Raised("TypeError")
                     ELSE select_tables(Tail(relevant), schema, selected)
               [] schema.kind = "dict" ->
                     IF DictHas(schema, table_name)
                     THEN select_tables(Tail(relevant), schema,
                                        DictSet(selected, table_name, schema.val[table_name]))
                     ELSE select_tables(Tail(relevant), schema, selected)

\* get_relevant_schemas walking the schema and keeping the retrieved tables
get_relevant_schemas_schema_order(search_results, schema) ==
    IF schema.kind = "dict"
    THEN Returned(MkDict(SelectSeq(schema.keys, LAMBDA k : k \in Range(search_results)),
                         schema.val))
    ELSE select_tables(search_results, schema, EmptyDict)

\* get_relevant_schemas(question, vectorstore, schema, top_k) once the search has
\* returned search_results: the table names in rank order, then the selection
get_relevant_schemas(search_results, schema) ==
    LET relevant == [i \in DOMAIN search_results |-> search_results[i]]
    IN  select_tables(relevant, schema, EmptyDict)

\* llm_sql_query once the service has replied with response_text:
\* json.loads, then sql_result.get('sql_query')
parse_response(text) ==
    LET sql_result == json_loads(text)
    IN  IF sql_result.raised THEN sql_result
        ELSE IF sql_result.value.kind # "dict" THEN Raised("AttributeError")
        ELSE IF DictHas(sql_result.value, "sql_query")
        THEN Returned(sql_result.value.val["sql_query"])
        ELSE Returned(None)

\* llm_sql_query(question, selected_tables_schema): the service raises (replied
\* FALSE) or replies with text
llm_sql_query(replied, text) ==
    IF ~replied THEN Raised("APIError") ELSE parse_response(text)

\* sql_response(sql_query, db_config): connect, cursor, execute, fetchall, then
\* cursor.close() and connection.close(); any exception is caught and None is
\* returned.  value: what is returned; open: the connections left open
sql_response(query, db) ==
    LET fail == IF db.fail \in {"none", "fetchall"} /\ query.kind # "str"
                THEN "execute" ELSE db.fail
    IN  CASE fail = "connect" -> [value |-> None, open |-> 0, failed |-> fail]
          [] fail \in {"cursor", "execute", "fetchall"} ->
                [value |-> None, open |-> 1, failed |-> fail]
          [] fail = "none" ->
                [value |-> [kind |-> "rows", rows |-> db.rows], open |-> 0, failed |-> fail]

\* bool(results): None and () are falsy
HasRows(r) == r.kind = "rows" /\ r.rows # <<>>

\* the load guard dropped: the resource is loaded by every run
AlwaysLoad(state, key) == TRUE

\* "key not in st.session_state"
NotInSession(state, key) == key \notin DOMAIN state

\* st.session_state.key = value
SessionSet(state, key, value) ==
    [k \in (DOMAIN state) \cup {key} |-> IF k = key THEN value ELSE state[k]]

\* the except branch without its return
AfterGenerateNoReturn(r) == "execute"

\* where streamlit_ui goes after "try: sql_query = llm_sql_query(...)": the
\* except branch reports the error and returns
AfterGenerate(r) == IF r.raised THEN "idle" ELSE "execute"

----------------------------------------------------------------------------
(* main.py: streamlit_ui, one script run per rerun or button press *)

\* no script run yet
U_Rest ==
    /\ session = [k \in {} |-> None]
    /\ pc = "idle"
    /\ runs = 0
    /\ button = FALSE
    /\ question = ""
    /\ relevant_tables = <<>>
    /\ relevant_schemas = EmptyDict
    /\ response_text = ""
    /\ sql_query = None
    /\ results = None
    /\ ui = "none"
    /\ open_conns = 0
    /\ calls = <<>>
    /\ exec_failed = "none"
    /\ load_calls = [k \in SessionKeys |-> 0]

\* build_vector_db.py is not run
B_Rest ==
    /\ b_pc = "off"
    /\ b_file = [kind |-> "missing"]
    /\ b_schema = None
    /\ b_summaries = <<>>
    /\ b_documents = <<>>
    /\ b_index = None

\* schema_generation.py is not run
X_Rest ==
    /\ x_pc = "off"
    /\ x_db = [tables |-> <<>>, describe |-> <<>>, fks |-> <<>>]
    /\ x_tables = <<>>
    /\ x_schema = EmptyDict
    /\ x_open = 0
    /\ x_file = [kind |-> "missing"]

Init == U_Rest /\ B_Rest /\ X_Rest

\* the locals of a run that are not set yet
U_Locals ==
    /\ relevant_tables' = <<>>
    /\ relevant_schemas' = EmptyDict
    /\ response_text' = ""
    /\ sql_query' = None
    /\ results' = None
    /\ calls' = <<>>
    /\ exec_failed' = "none"

\* Streamlit starts a script run: a rerun, or a press of the button, with the text
\* area holding q
UI_StartRun ==
    /\ pc = "idle"
    /\ runs < MaxRuns
    /\ runs' = runs + 1
    /\ \E b \in BOOLEAN, q \in Questions : button' = b /\ question' = q
    /\ pc' = "load_db"
    /\ ui' = "running"
    /\ U_Locals
    /\ UNCHANGED <<session, open_conns, load_calls>>
    /\ UNCHANGED <<b_vars, x_vars>>

\* if 'vectorstore' not in st.session_state: ... = load_db()
UI_LoadDb ==
    /\ pc = "load_db"
    /\ IF NotInSession(session, "vectorstore")
       THEN /\ load_calls' = [load_calls EXCEPT !["vectorstore"] = @ + 1]
            /\ \E folder \in VectorStores \cup {[kind |-> "missing"]} :
                  LET r == load_db(folder)
                  IN  IF r.raised
                      THEN pc' = "idle" /\ ui' = "exception" /\ UNCHANGED session
                      ELSE /\ pc' = "load_schema"
                           /\ session' = SessionSet(session, "vectorstore", r.value)
                           /\ UNCHANGED ui
       ELSE pc' = "load_schema" /\ UNCHANGED <<session, ui, load_calls>>
    /\ UNCHANGED <<runs, button, question, relevant_tables, relevant_schemas,
                   response_text, sql_query, results, open_conns, calls, exec_failed>>
    /\ UNCHANGED <<b_vars, x_vars>>

\* if 'schema' not in st.session_state: ... = load_schema()
UI_LoadSchema ==
    /\ pc = "load_schema"
    /\ IF NotInSession(session, "schema")
       THEN /\ load_calls' = [load_calls EXCEPT !["schema"] = @ + 1]
            /\ \E file \in UIFiles :
                  LET r == load_schema(file)
                  IN  IF r.raised
                      THEN pc' = "idle" /\ ui' = "exception" /\ UNCHANGED session
                      ELSE /\ pc' = "button"
                           /\ session' = SessionSet(session, "schema", r.value)
                           /\ UNCHANGED ui
       ELSE pc' = "button" /\ UNCHANGED <<session, ui, load_calls>>
    /\ UNCHANGED <<runs, button, question, relevant_tables, relevant_schemas,
                   response_text, sql_query, results, open_conns, calls, exec_failed>>
    /\ UNCHANGED <<b_vars, x_vars>>

\* if st.button(...): if not question: warning, return
UI_Button ==
    /\ pc = "button"
    /\ IF ~button THEN pc' = "idle" /\ ui' = "form"
       ELSE IF question = "" THEN pc' = "idle" /\ ui' = "warning_enter_question"
       ELSE pc' = "retrieve" /\ UNCHANGED ui
    /\ UNCHANGED <<session, runs, button, question, relevant_tables, relevant_schemas,
                   response_text, sql_query, results, open_conns, calls, exec_failed,
                   load_calls>>
    /\ UNCHANGED <<b_vars, x_vars>>

\* relevant_schemas = get_relevant_schemas(question, vectorstore, schema, top_k=3)
UI_Retrieve ==
    /\ pc = "retrieve"
    /\ calls' = Append(calls, "retrieve")
    /\ \E found \in similarity_search(session["vectorstore"], top_k) :
          LET r == get_relevant_schemas(found, session["schema"])
          IN  /\ relevant_tables' = found
              /\ IF r.raised
                 THEN pc' = "idle" /\ ui' = "exception" /\ UNCHANGED relevant_schemas
                 ELSE pc' = "generate" /\ relevant_schemas' = r.value /\ UNCHANGED ui
    /\ UNCHANGED <<session, runs, button, question, response_text, sql_query, results,
                   open_conns, exec_failed, load_calls>>
    /\ UNCHANGED <<b_vars, x_vars>>

\* try: sql_query = llm_sql_query(question, relevant_schemas)
\* except Exception: st.error("Error generating SQL query"); return
UI_Generate ==
    /\ pc = "generate"
    /\ calls' = Append(calls, "generate")
    /\ \E replied \in BOOLEAN, text \in ResponseTexts :
          LET r == llm_sql_query(replied, text)
          IN  /\ response_text' = IF replied THEN text ELSE ""
              /\ pc' = AfterGenerate(r)
              /\ IF r.raised
                 THEN ui' = "error_generating" /\ UNCHANGED sql_query
                 ELSE sql_query' = r.value /\ UNCHANGED ui
    /\ UNCHANGED <<session, runs, button, question, relevant_tables, relevant_schemas,
                   results, open_conns, exec_failed, load_calls>>
    /\ UNCHANGED <<b_vars, x_vars>>

\* try: results = sql_response(sql_query, db_config)
\* (sql_response catches every Exception itself, so the except branch is dead)
UI_Execute ==
    /\ pc = "execute"
    /\ calls' = Append(calls, "execute")
    /\ \E db \in DbOutcomes :
          LET r == sql_response(sql_query, db)
          IN  /\ results' = r.value
              /\ open_conns' = open_conns + r.open
              /\ exec_failed' = r.failed
    /\ pc' = "display"
    /\ UNCHANGED <<session, runs, button, question, relevant_tables, relevant_schemas,
                   response_text, sql_query, ui, load_calls>>
    /\ UNCHANGED <<b_vars, x_vars>>

\* if results: success and the rows; else: warning "No results returned"
UI_Display ==
    /\ pc = "display"
    /\ ui' = IF HasRows(results) THEN "success_rows" ELSE "warning_no_results"
    /\ pc' = "idle"
    /\ UNCHANGED <<session, runs, button, question, relevant_tables, relevant_schemas,
                   response_text, sql_query, results, open_conns, calls, exec_failed,
                   load_calls>>
    /\ UNCHANGED <<b_vars, x_vars>>

Next ==
    \/ UI_StartRun
    \/ UI_LoadDb
    \/ UI_LoadSchema
    \/ UI_Button
    \/ UI_Retrieve
    \/ UI_Generate
    \/ UI_Execute
    \/ UI_Display

Spec == Init /\ [][Next]_vars

----------------------------------------------------------------------------
(* Properties of main.py, checked under Spec *)

\* get_relevant_schemas was called by this run and returned
U_Retrieved == calls # <<>> /\ ~(pc = "idle" /\ ui = "exception")

\* the run is past the loading of the resources
U_PastLoading == runs >= 1 /\ pc \notin {"load_db", "load_schema"}

\* where x stands in the sequence s of distinct elements
Pos(s, x) == CHOOSE i \in DOMAIN s : s[i] = x

\* C1: for a schema that is a map and any ranked list of retrieved table names,
\* get_relevant_schemas returns exactly the retrieved tables the schema has, in
\* rank order, each with the unmodified entry of the schema; a retrieved name the
\* schema lacks is skipped and raises nothing.
C1_SelectionIsProjection ==
    (calls # <<>> /\ session["schema"].kind = "dict") =>
       LET schema == session["schema"]
           sel    == relevant_schemas
       IN  /\ U_Retrieved
           /\ sel.kind = "dict"
           /\ Range(sel.keys) = Range(relevant_tables) \cap Range(schema.keys)
           /\ DOMAIN sel.val = Range(sel.keys)
           /\ Cardinality(Range(sel.keys)) = Len(sel.keys)
           /\ \A i, j \in DOMAIN sel.keys :
                 i < j => Pos(relevant_tables, sel.keys[i]) < Pos(relevant_tables, sel.keys[j])
           /\ \A k \in DOMAIN sel.val : sel.val[k] = schema.val[k]

\* C1's case: the retrieval ranked a dropped table first and the two tables of the
\* schema, whose entries differ, against the order of the schema file
C1_Witness ==
    /\ U_Retrieved
    /\ session["schema"].kind = "dict"
    /\ Len(session["schema"].keys) = 2
    /\ session["schema"].val["patients"] # session["schema"].val["appointments"]
    /\ relevant_tables[1] \notin Range(session["schema"].keys)
    /\ relevant_schemas.keys = <<session["schema"].keys[2], session["schema"].keys[1]>>

\* the replies that are a JSON object with the sql_query key
RepliesWithSqlQuery ==
    {"{\"sql_query\": \"SELECT * FROM patients\"}",
     "{\"sql_query\": \"SELECT * FROM patients\", \"note\": \"all rows\"}"}

\* C3: parsing the service's reply returns the string of its sql_query field when
\* the reply is an object with that field, and fails (an error, no value) when the
\* reply is not valid structured data or lacks the sql_query key.
C3_ParseReturnsQueryOrFails ==
    (Len(calls) >= 2 /\ response_text # "") =>
       IF response_text \in RepliesWithSqlQuery
       THEN ui # "error_generating" /\ sql_query = PyStr("SELECT * FROM patients")
       ELSE ui = "error_generating" /\ pc = "idle" /\ sql_query = None

\* C5: what load_schema hands to the session is a complete schema: a map whose
\* tables all have columns, primary_keys and foreign_keys; a missing or malformed
\* file is an error and never a value.
C5_LoadFailsOrComplete ==
    "schema" \in DOMAIN session =>
       /\ session["schema"].kind = "dict"
       /\ \A k \in Range(session["schema"].keys) :
             Fields \subseteq DOMAIN session["schema"].val[k]

\* C6: a failed execution returns no rows and ends the run with an error on the
\* page, not with what a successful execution of zero rows ends with.
C6_FailureDistinguishable ==
    (pc = "idle" /\ Len(calls) = 3 /\ exec_failed # "none") =>
       /\ results.kind # "rows"
       /\ ui \notin {"warning_no_results", "success_rows"}

\* C9 as stated: by the end of the first run's loading, and ever after, the index
\* and the schema are both in the session and each loader ran exactly once.
C9_LoadedOnceOnFirstRun ==
    U_PastLoading =>
       \A k \in SessionKeys : k \in DOMAIN session /\ load_calls[k] = 1

\* C9, amended: a question is only processed with both resources in the session;
\* a resource is stored by the first run whose loader returns (a loader that raised
\* is called again by the next run), and once stored its loader is never called
\* again and its value never changes, whatever retrieval, selection, generation
\* and execution do.
C9_LoadedOnceThenFrozen ==
    /\ [](pc \in {"retrieve", "generate", "execute", "display"} =>
             \A k \in SessionKeys : k \in DOMAIN session /\ load_calls[k] >= 1)
    /\ [][\A k \in SessionKeys :
             k \in DOMAIN session =>
                /\ k \in DOMAIN session'
                /\ session'[k] = session[k]
                /\ load_calls'[k] = load_calls[k]]_vars

\* C9's case: the second run of the session executed a question on the schema and
\* the index that the first run loaded
C9_Witness ==
    /\ runs = 2
    /\ Len(calls) = 3
    /\ pc = "idle"
    /\ load_calls = [k \in SessionKeys |-> 1]
    /\ session["schema"].kind = "dict"

Prefix(s, t) == Len(s) <= Len(t) /\ \A i \in DOMAIN s : s[i] = t[i]

\* C10: a run calls retrieval, then generation, then execution, in that order and
\* each at most once; without a press or with an empty question it calls none;
\* generation is called only after retrieval returned; execution only after
\* generation returned: when generation raises, the error is reported, the run
\* ends and no connection to the database is made.
C10_StepOrder ==
    /\ Prefix(calls, <<"retrieve", "generate", "execute">>)
    /\ (~button \/ question = "") => calls = <<>>
    /\ (pc = "idle" /\ ui = "exception") => Len(calls) <= 1
    /\ Len(calls) >= 2 => relevant_schemas.kind = "dict" /\ relevant_tables # <<>>
    /\ ui = "error_generating" =>
          pc = "idle" /\ calls = <<"retrieve", "generate">> /\ exec_failed = "none"
    /\ Len(calls) = 3 => ui # "error_generating"

\* C10's case: generation raised on an unparsable reply and the run ended there
C10_Witness ==
    /\ pc = "idle"
    /\ ui = "error_generating"
    /\ response_text = "not json"
    /\ calls = <<"retrieve", "generate">>

----------------------------------------------------------------------------
(* build_vector_db.py: main() *)

B_Init ==
    /\ U_Rest
    /\ X_Rest
    /\ b_pc = "start"
    /\ b_file \in BuildFiles
    /\ b_schema = None
    /\ b_summaries = <<>>
    /\ b_documents = <<>>
    /\ b_index = None

\* main(): schema = load_schema()
B_LoadSchema ==
    /\ b_pc = "start"
    /\ LET r == load_schema(b_file)
       IN  IF r.raised
           THEN b_pc' = "crashed_load" /\ UNCHANGED b_schema
           ELSE b_pc' = "loaded" /\ b_schema' = r.value
    /\ UNCHANGED <<b_file, b_summaries, b_documents, b_index>>
    /\ UNCHANGED <<u_vars, x_vars>>

\* main(): if schema: summaries = schema_summary(schema)
B_Summarize ==
    /\ b_pc = "loaded"
    /\ IF ~Truthy(b_schema)
       THEN b_pc' = "done" /\ UNCHANGED b_summaries
       ELSE LET r == schema_summary(b_schema)
            IN  IF r.raised
                THEN b_pc' = "crashed_summary" /\ UNCHANGED b_summaries
                ELSE b_pc' = "summarized" /\ b_summaries' = r.value
    /\ UNCHANGED <<b_file, b_schema, b_documents, b_index>>
    /\ UNCHANGED <<u_vars, x_vars>>

\* main(): documents = create_documents(summaries, schema)
B_CreateDocuments ==
    /\ b_pc = "summarized"
    /\ LET r == create_documents(b_summaries, b_schema)
       IN  IF r.raised
           THEN b_pc' = "crashed_documents" /\ UNCHANGED b_documents
           ELSE b_pc' = "documents" /\ b_documents' = r.value
    /\ UNCHANGED <<b_file, b_schema, b_summaries, b_index>>
    /\ UNCHANGED <<u_vars, x_vars>>

\* main(): vectorstore = create_vector_db(documents)
B_CreateVectorDb ==
    /\ b_pc = "documents"
    /\ \E ok \in BOOLEAN :
          LET r == create_vector_db(b_documents, ok)
          IN  IF r.raised
              THEN b_pc' = "crashed_index" /\ UNCHANGED b_index
              ELSE b_pc' = "done" /\ b_index' = r.value
    /\ UNCHANGED <<b_file, b_schema, b_summaries, b_documents>>
    /\ UNCHANGED <<u_vars, x_vars>>

B_Next ==
    \/ B_LoadSchema
    \/ B_Summarize
    \/ B_CreateDocuments
    \/ B_CreateVectorDb

SpecBuild == B_Init /\ [][B_Next]_vars

----------------------------------------------------------------------------
(* Properties of build_vector_db.py, checked under SpecBuild *)

\* main() has summaries: schema_summary returned
B_HasSummaries == b_pc \in {"summarized", "documents", "done", "crashed_index"} /\ b_summaries # <<>>

\* the i-th table of the loaded schema
B_Table(i) == b_schema.val[b_schema.keys[i]]

\* how many pieces of the text s are the piece x
Count(s, x) == Cardinality({j \in DOMAIN s : s[j] = x})

PkOpening == " The primary key in this table is "

FkOpening == " Foreign keys: "

\* s[from + 1 ..] starts with the names, separated by sep: 2 * Len(names) - 1 pieces
NamesAt(s, from, names, sep) ==
    /\ \A j \in DOMAIN names : s[from + 2 * j - 1] = names[j]
    /\ \A j \in 1..(Len(names) - 1) : s[from + 2 * j] = sep

ListLen(names) == IF names = <<>> THEN 0 ELSE 2 * Len(names) - 1

\* s starts with the base sentence of the table: its name and its columns in
\* declaration order, comma separated, and the full stop
BaseSentenceAt(s, name, cols) ==
    /\ Len(s) >= 4 + ListLen(cols)
    /\ s[1] = "This table "
    /\ s[2] = name
    /\ s[3] = " , has columns "
    /\ NamesAt(s, 3, cols, ", ")
    /\ s[4 + ListLen(cols)] = "."

\* C7: a table whose primary_keys and foreign_keys are both empty is summarised by
\* exactly the base sentence (table name, column names in declaration order, comma
\* separated), with no primary-key and no foreign-key clause; a table with zero
\* columns gets the base sentence with an empty column list, and summarising a
\* schema of complete tables never fails.
C7_BaseSentenceOnly ==
    /\ B_HasSummaries =>
          \A i \in DOMAIN b_summaries :
             LET t == B_Table(i)
                 s == b_summaries[i]
             IN  (t["primary_keys"] = <<>> /\ t["foreign_keys"] = <<>>) =>
                    /\ BaseSentenceAt(s, b_schema.keys[i], t["columns"].keys)
                    /\ Len(s) = 4 + ListLen(t["columns"].keys)
                    /\ Count(s, PkOpening) = 0
                    /\ Count(s, FkOpening) = 0
                    /\ (t["columns"].keys = <<>> =>
                           s = <<"This table ", b_schema.keys[i], " , has columns ", ".">>)
    /\ b_pc = "crashed_summary" =>
          \/ b_schema.kind # "dict"
          \/ \E k \in Range(b_schema.keys) : b_schema.val[k] \notin WellFormedTables

\* C7's case: the summary of a table with no keys and no columns was produced,
\* next to the summary of a table with keys
C7_Witness ==
    /\ B_HasSummaries
    /\ \E i, j \in DOMAIN b_summaries :
          /\ B_Table(i)["primary_keys"] = <<>>
          /\ B_Table(i)["foreign_keys"] = <<>>
          /\ B_Table(i)["columns"].keys = <<>>
          /\ B_Table(j)["primary_keys"] # <<>>

\* C8: a table with foreign keys has exactly one foreign-key sentence, closing the
\* summary, with one clause "<column> references <table>.<column>" per foreign key
\* in list order, joined by "; "; and when it also has primary keys, exactly one
\* primary-key sentence names them in declared order, after the base sentence and
\* before the foreign-key sentence.
C8_KeySentences ==
    B_HasSummaries =>
       \A i \in DOMAIN b_summaries :
          LET t   == B_Table(i)
              s   == b_summaries[i]
              fks == t["foreign_keys"]
              pks == t["primary_keys"]
              b   == 4 + ListLen(t["columns"].keys)
              p   == IF pks = <<>> THEN b + 1 ELSE b + 2 * Len(pks) + 2
          IN  fks # <<>> =>
                 /\ BaseSentenceAt(s, b_schema.keys[i], t["columns"].keys)
                 /\ Count(s, FkOpening) = 1
                 /\ Len(s) = p + 6 * Len(fks)
                 /\ s[p] = FkOpening
                 /\ \A k \in DOMAIN fks :
                       /\ s[p + 6 * k - 5] = fks[k].column
                       /\ s[p + 6 * k - 4] = " references "
                       /\ s[p + 6 * k - 3] = fks[k].references_table
                       /\ s[p + 6 * k - 2] = "."
                       /\ s[p + 6 * k - 1] = fks[k].references_column
                       /\ s[p + 6 * k] = IF k < Len(fks) THEN "; " ELSE "."
                 /\ pks = <<>> => Count(s, PkOpening) = 0
                 /\ pks # <<>> =>
                       /\ Count(s, PkOpening) = 1
                       /\ s[b + 1] = PkOpening
                       /\ NamesAt(s, b + 1, pks, ", ")
                       /\ s[b + 2 * Len(pks) + 1] = "."

\* C8's case: a summary with two different foreign keys and two primary keys
C8_Witness ==
    /\ B_HasSummaries
    /\ \E i \in DOMAIN b_summaries :
          /\ Len(B_Table(i)["foreign_keys"]) = 2
          /\ B_Table(i)["foreign_keys"][1] # B_Table(i)["foreign_keys"][2]
          /\ Len(B_Table(i)["primary_keys"]) = 2
          /\ Count(b_summaries[i], "; ") = 1

\* C2: after create_documents(schema_summary(schema), schema) there is exactly one
\* document per table, and document i carries the name of the i-th table of the
\* schema as table_name and the summary of that same table as its text.
C2_DocumentPerTable ==
    b_pc \in {"documents", "done", "crashed_index"} /\ Truthy(b_schema) =>
       /\ Len(b_documents) = Len(b_schema.keys)
       /\ \A i \in DOMAIN b_schema.keys :
             /\ b_documents[i].metadata.table_name = b_schema.keys[i]
             /\ b_documents[i].page_content[2] = b_schema.keys[i]
             /\ b_documents[i].page_content = table_summary(b_schema.keys[i], B_Table(i))

\* C2's case: documents of a schema of two tables with different entries
C2_Witness ==
    /\ b_pc = "documents"
    /\ Len(b_documents) = 2
    /\ B_Table(1) # B_Table(2)
    /\ b_documents[1].page_content # b_documents[2].page_content

----------------------------------------------------------------------------
(* schema_generation.py, and sql_response called on its own: the two places
   that open a database connection (specification SpecDb) *)

\* the rows DESCRIBE can return for a table: (field, type, null, key, default,
\* extra), of which the code reads field, type and key
DescribeRows ==
    UNION {{[i \in DOMAIN cs |-> [field |-> cs[i], type |-> ColType[cs[i]], key |-> ks[i]]] :
               ks \in [DOMAIN cs -> {"PRI", ""}]} :
              cs \in DistinctSeqs(ColNames, Cardinality(ColNames)) \ {<<>>}}

\* the rows of INFORMATION_SCHEMA.KEY_COLUMN_USAGE for a table:
\* (COLUMN_NAME, REFERENCED_TABLE_NAME, REFERENCED_COLUMN_NAME)
FkRows ==
    SeqsUpTo({<<fk.column, fk.references_table, fk.references_column>> : fk \in FkRefs},
             MaxFks)

\* the databases the script is run against: SHOW TABLES order, and what DESCRIBE
\* and the foreign-key query return for each table
Databases ==
    UNION {[tables : {ts}, describe : [Range(ts) -> DescribeRows],
            fks : [Range(ts) -> FkRows]] :
              ts \in DistinctSeqs(TableNames, Cardinality(TableNames))}

\* the entry get_database_schema stores for a table: columns from the DESCRIBE
\* rows, primary_keys the fields whose key is 'PRI', foreign_keys from the rows
\* of the foreign-key query
table_entry(table_des, foreign_keys_info) ==
    LET fields == [i \in DOMAIN table_des |-> table_des[i].field]
        pri    == SelectSeq(table_des, LAMBDA col : col.key = "PRI")
    IN  [columns |->
            [kind |-> "dict", keys |-> fields,
             val |-> [c \in Range(fields) |->
                        table_des[CHOOSE i \in DOMAIN table_des : table_des[i].field = c].type]],
         primary_keys |-> [i \in DOMAIN pri |-> pri[i].field],
         foreign_keys |->
            [i \in DOMAIN foreign_keys_info |->
                [column |-> foreign_keys_info[i][1],
                 references_table |-> foreign_keys_info[i][2],
                 references_column |-> foreign_keys_info[i][3]]]]

\* one of the two programs is run: schema_generation.py against some database,
\* or (x_pc = "off") a call of sql_response
X_Init ==
    /\ U_Rest
    /\ B_Rest
    /\ \/ x_pc = "start" /\ x_db \in Databases
       \/ x_pc = "off" /\ x_db = [tables |-> <<>>, describe |-> <<>>, fks |-> <<>>]
    /\ x_tables = <<>>
    /\ x_schema = EmptyDict
    /\ x_open = 0
    /\ x_file = [kind |-> "missing"]

\* get_database_schema: connections = pymysql.connect(...); cursor = ...cursor()
X_Connect ==
    /\ x_pc = "start"
    /\ \E fail \in {"none", "connect", "cursor"} :
          /\ x_open' = IF fail = "connect" THEN 0 ELSE 1
          /\ x_pc' = IF fail = "none" THEN "show" ELSE "crashed"
    /\ UNCHANGED <<x_db, x_tables, x_schema, x_file>>
    /\ UNCHANGED <<b_vars, u_vars>>

\* cursor.execute('show tables'); tables = cursor.fetchall(); schema = {}
X_ShowTables ==
    /\ x_pc = "show"
    /\ \E ok \in BOOLEAN :
          IF ok
          THEN /\ x_tables' = x_db.tables
               /\ x_pc' = IF x_db.tables = <<>> THEN "close" ELSE "describe"
          ELSE x_pc' = "crashed" /\ UNCHANGED x_tables
    /\ UNCHANGED <<x_db, x_schema, x_open, x_file>>
    /\ UNCHANGED <<b_vars, u_vars>>

\* one pass of "for table in tables": DESCRIBE, the foreign-key query, and
\* schema[table_name] = {...}
X_DescribeTable ==
    /\ x_pc = "describe"
    /\ LET table_name == x_tables[Len(x_schema.keys) + 1]
       IN  \E ok \in BOOLEAN :
              IF ok
              THEN /\ x_schema' = DictSet(x_schema, table_name,
                                          table_entry(x_db.describe[table_name],
                                                      x_db.fks[table_name]))
                   /\ x_pc' = IF Len(x_schema.keys) + 1 = Len(x_tables)
                              THEN "close" ELSE "describe"
              ELSE x_pc' = "crashed" /\ UNCHANGED x_schema
    /\ UNCHANGED <<x_db, x_tables, x_open, x_file>>
    /\ UNCHANGED <<b_vars, u_vars>>

\* cursor.close(); connections.close(); return json.dumps(schema, indent=4)
X_Close ==
    /\ x_pc = "close"
    /\ x_open' = x_open - 1
    /\ x_pc' = "write"
    /\ UNCHANGED <<x_db, x_tables, x_schema, x_file>>
    /\ UNCHANGED <<b_vars, u_vars>>

\* main(): json_file.write(schema_json)
X_WriteFile ==
    /\ x_pc = "write"
    /\ x_file' = [kind |-> "json", value |-> x_schema]
    /\ x_pc' = "done"
    /\ UNCHANGED <<x_db, x_tables, x_schema, x_open>>
    /\ UNCHANGED <<b_vars, u_vars>>

\* sql_response(sql_query, db_config) called with a query or with None
D_SqlResponse ==
    /\ x_pc = "off"
    /\ calls = <<>>
    /\ calls' = <<"execute">>
    /\ \E query \in {None, PyStr("SELECT * FROM patients")}, db \in DbOutcomes :
          LET r == sql_response(query, db)
          IN  /\ sql_query' = query
              /\ results' = r.value
              /\ open_conns' = open_conns + r.open
              /\ exec_failed' = r.failed
    /\ pc' = "display"
    /\ UNCHANGED <<session, runs, button, question, relevant_tables, relevant_schemas,
                   response_text, ui, load_calls>>
    /\ UNCHANGED <<b_vars, x_vars>>

X_Next ==
    \/ X_Connect
    \/ X_ShowTables
    \/ X_DescribeTable
    \/ X_Close
    \/ X_WriteFile
    \/ D_SqlResponse

SpecDb == X_Init /\ [][X_Next]_vars

\* C4: every connection opened by sql_response or by get_database_schema is
\* released on every exit path: once the call has ended, by returning or by a
\* step after connecting failing, no connection is left open.
C4_ConnectionsReleased ==
    /\ pc \in {"display", "idle"} => open_conns = 0
    /\ x_pc \in {"write", "done", "crashed"} => x_open = 0

\* the part of C4 about sql_response
C4_SqlResponseReleases == pc \in {"display", "idle"} => open_conns = 0

\* the part of C4 about get_database_schema
C4_ExtractionReleases == x_pc \in {"write", "done", "crashed"} => x_open = 0

\* what schema_generation.py writes is a map of complete table entries, in SHOW
\* TABLES order
X_WritesWellFormedSchema ==
    x_pc = "done" =>
       /\ x_file.value \in SchemaDicts
       /\ x_file.value.keys = x_db.tables
       /\ \A k \in Range(x_db.tables) : x_file.value.val[k] \in WellFormedTables

====
